---- MODULE Spec2Model ----
(***************************************************************************)
(* A model of the dc-ts core: the Result algebra (result.ts), the workflow *)
(* composition engine (composeWf / applyConstrains) and the message and    *)
(* causality builder (newCmd / newEvt / cleanDT / dtFromMsg).              *)
(*                                                                         *)
(* JavaScript values are modelled as records tagged with a "kind" field,   *)
(* so that a state, an event, a command and a closure (a curried function  *)
(* with its first argument bound) are distinct comparable values.          *)
(***************************************************************************)
EXTENDS Integers, Sequences, FiniteSets, TLC

VARIABLES
    \* ---- one invocation of a composed workflow ----
    pc,             \* position inside the invoked function
    entry,          \* which function of the composed workflow was invoked
    c,              \* the command argument
    s,              \* the state argument
    _parseState,    \* composeWf argument: the state validator
    _constrains,    \* composeWf argument: the ordered constraint list
    _decide,        \* composeWf argument: the decision function
    parsingRes,     \* const parsingRes
    currState,      \* the state argument of applyConstrains
    acc,            \* the reducer accumulator of applyConstrains
    idx,            \* position of fns.reduce / evt.reduce
    constrainsRes,  \* const constrainsRes
    decideRes,      \* const decideRes
    evt,            \* const evt
    state,          \* the accumulator of evt.reduce(_evolve, s)
    result,         \* the value returned to the caller
    calls,          \* every call made to a user-supplied function, in order
    \* ---- the message builder ----
    built,          \* one entry per newCmd / newEvt call made so far
    uuidCount,      \* number of identifiers uuid() has handed out
    now,            \* the clock read by Date.now()
    \* ---- one call of a function of the library ----
    libOp,          \* the function that was called
    libIn,          \* its arguments
    libOut,         \* the value it returned
    libCalls,       \* the calls it made to the functions it was given
    libApplied,     \* the value of applying a returned function, if applied
    \* ---- concurrent callers of one composed workflow ----
    frame,          \* the local variables and the position of each caller
    cells           \* the accumulator objects created by applyConstrains

wfVars  == <<pc, entry, c, s, _parseState, _constrains, _decide, parsingRes,
             currState, acc, idx, constrainsRes, decideRes, evt, state, result, calls>>
msgVars == <<built, uuidCount, now>>
libVars == <<libOp, libIn, libOut, libCalls, libApplied>>
concVars == <<frame, cells>>
vars    == <<pc, entry, c, s, _parseState, _constrains, _decide, parsingRes,
             currState, acc, idx, constrainsRes, decideRes, evt, state, result, calls,
             built, uuidCount, now,
             libOp, libIn, libOut, libCalls, libApplied,
             frame, cells>>

----------------------------------------------------------------------------
(* Bounds of the model *)

MaxState == 2       \* aggregate states are St(0) .. St(MaxState)
MaxCons  == 3       \* longest constraint list
MaxEvts  == 2       \* longest event list a decision returns
MaxMsgs  == 3       \* number of newCmd / newEvt calls
MaxClock == 1       \* latest instant Date.now() returns
MaxStages == 3      \* longest chain of acceptRes stages
MaxCauses == 2      \* longest cause list handed to failMany

----------------------------------------------------------------------------
(* Values *)

St(n)  == [kind |-> "state", v |-> n]
Cmd(t) == [kind |-> "cmd", type |-> t]
Evt(t) == [kind |-> "evt", type |-> t]

States == { St(n) : n \in 0 .. MaxState }
Cmds   == { Cmd("c1"), Cmd("c2") }
Events == { Evt("inc"), Evt("dbl") }

\* the value of a variable that has not been assigned yet
None == [kind |-> "none", outcome |-> "none"]

\* a curried function whose first parameter has been bound: fn(bound)
Closure(fn, bound) == [kind |-> "closure", fn |-> fn, bound |-> bound]

----------------------------------------------------------------------------
(* Result algebra *)

succeed(data) == [outcome |-> "success", data |-> data]

fail(msg, data) == [outcome |-> "failure", cause |-> <<[msg |-> msg, data |-> data]>>]

failMany(cause) == [outcome |-> "failure", cause |-> cause]

\* a variant that wraps the failure it is given in a new one
failWithResWrapped(res) == fail("workflow_failed", res.cause)

\* a variant that builds a failure of its own from the first cause
failWithResRecoded(res) == fail("execute_failed", res.cause[1].data)

failWithRes(res) == res

isFailure(res) == res.outcome = "failure"

isSuccess(res) == res.outcome = "success"

----------------------------------------------------------------------------
(* The user-supplied functions a workflow is composed from.  Each is one   *)
(* of a small family of pure functions, named by a string.                 *)

ParserKinds == { "all", "nonzero", "clamp" }

\* SafeParse<S>: (data) => Result<S, SafeParseFails>
ParseState(kind, data) ==
    CASE kind = "all"     -> succeed(data)
      [] kind = "nonzero" -> IF data.v = 0 THEN fail("parse_error", data) ELSE succeed(data)
      [] kind = "clamp"   -> succeed(St(IF data.v > 1 THEN 1 ELSE data.v))

ConstrainKinds == { "pass", "bump", "failA", "failB", "failC2" }

\* Constrain<C, S, F>: (cmd) => (currState) => Result<S, F>
Constrain(kind, cmd, cs) ==
    CASE kind = "pass"   -> succeed(cs)
      [] kind = "bump"   -> succeed(St((cs.v + 1) % (MaxState + 1)))
      [] kind = "failA"  -> fail("cons_a", cs)
      [] kind = "failB"  -> fail("cons_b", cmd)
      [] kind = "failC2" -> IF cmd.type = "c2" THEN fail("cons_c2", cmd) ELSE succeed(cs)

RECURSIVE SeqsUpTo(_, _)
SeqsUpTo(S, n) ==
    IF n = 0 THEN { <<>> }
    ELSE LET shorter == SeqsUpTo(S, n - 1)
         IN  shorter \cup { Append(q, x) : q \in shorter, x \in S }

DecideKinds == { [fails |-> TRUE,  evts |-> <<>>] }
               \cup { [fails |-> FALSE, evts |-> es] : es \in SeqsUpTo(Events, MaxEvts) }

\* Decide<C, iS, E, F>: (c) => (s) => Result<E[], F>
Decide(kind, cmd, st) ==
    IF kind.fails THEN fail("decide_failed", st) ELSE succeed(kind.evts)

\* Evolve<E, iS, oS>: (e) => (s) => oS, applied to both of its arguments
Evolve(e, st) ==
    CASE e.type = "inc" -> St((st.v + 1) % (MaxState + 1))
      [] e.type = "dbl" -> St((2 * st.v) % (MaxState + 1))

----------------------------------------------------------------------------
(* Call log *)

Call(fn, i, arg, res) == [fn |-> fn, idx |-> i, arg |-> arg, res |-> res]

\* a variant that calls fn whatever the outcome of res
acceptResCallsThrough(res) ==
    [call |-> TRUE,
     arg  |-> IF isFailure(res) THEN res.cause[1].data ELSE res.data,
     ret  |-> None]

\* a variant that rebuilds a failure from its first cause
acceptResRebuilds(res) ==
    IF isFailure(res)
    THEN [call |-> FALSE, arg |-> None,
          ret |-> fail(res.cause[1].msg, res.cause[1].data)]
    ELSE [call |-> TRUE, arg |-> res.data, ret |-> None]

\* a variant that wraps a failure into a failure of its own
acceptResWraps(res) ==
    IF isFailure(res)
    THEN [call |-> FALSE, arg |-> None, ret |-> fail("stage_failed", res.cause)]
    ELSE [call |-> TRUE, arg |-> res.data, ret |-> None]

\* acceptRes(fn)(res): a failure is returned as it is and fn is not called;
\* on a success fn is called with res['data'] and its value is returned.
\* The operator says which of the two happens: call fn with arg, or return ret.
acceptRes(res) ==
    IF isFailure(res)
    THEN [call |-> FALSE, arg |-> None, ret |-> res]
    ELSE [call |-> TRUE, arg |-> res.data, ret |-> None]

----------------------------------------------------------------------------
(* Workflow composition engine *)

\* a variant whose initial accumulator does not hold a success
applyConstrainsInitFailed(cs) ==
    [failedOnce |-> FALSE, res |-> fail("no_constraint_passed", cs)]

\* the initial value of fns.reduce in applyConstrains
applyConstrainsInit(cs) == [failedOnce |-> FALSE, res |-> succeed(cs)]

\* a variant that keeps the last failure instead of the first
applyConstrainsReducerLast(a, res) ==
    IF isFailure(res) THEN [failedOnce |-> TRUE, res |-> res] ELSE a

\* a variant in which a passing constraint clears an earlier failure
applyConstrainsReducerForgets(a, res) ==
    IF isFailure(res)
    THEN IF ~a.failedOnce THEN [failedOnce |-> TRUE, res |-> res] ELSE a
    ELSE [failedOnce |-> FALSE, res |-> res]

\* a variant that hands on the state a passing constraint returned
applyConstrainsReducerThreads(a, res) ==
    IF isFailure(res)
    THEN IF ~a.failedOnce THEN [failedOnce |-> TRUE, res |-> res] ELSE a
    ELSE IF a.failedOnce THEN a ELSE [failedOnce |-> FALSE, res |-> res]

\* the reducer callback of applyConstrains, given the constraint's result
applyConstrainsReducer(a, res) ==
    IF isFailure(res)
    THEN IF ~a.failedOnce THEN [failedOnce |-> TRUE, res |-> res] ELSE a
    ELSE a

\* _evolve(e): the evolution function is curried, one argument binds the event
EvolveBind(e) == Closure("evolve", e)

\* the call Array.prototype.reduce makes to its callback _evolve:
\* _evolve(accumulator, currentValue, index, array)
evolveReducer(accumulator, currentValue) == EvolveBind(accumulator)

Compositions ==
    [ parseState : ParserKinds,
      constrains : SeqsUpTo(ConstrainKinds, MaxCons),
      decide     : DecideKinds ]

WfIdle ==
    /\ pc = "idle"
    /\ entry = "none"
    /\ c = None
    /\ s = None
    /\ parsingRes = None
    /\ currState = None
    /\ acc = None
    /\ idx = 0
    /\ constrainsRes = None
    /\ decideRes = None
    /\ evt = <<>>
    /\ state = None
    /\ result = None
    /\ calls = <<>>

MsgInit ==
    /\ built = <<>>
    /\ uuidCount = 0
    /\ now = 0

LibIdle ==
    /\ libOp = "none"
    /\ libIn = None
    /\ libOut = None
    /\ libCalls = <<>>
    /\ libApplied = None

\* the callers that share one composed workflow
Callers == { "a", "b" }

\* the accumulator objects: one per caller, and a place at module level
CellIds == Callers \cup { "module" }

\* the local variables of a caller that is not inside the workflow
IdleFrame ==
    [ pc |-> "idle", entry |-> "none", c |-> None, s |-> None,
      parsingRes |-> None, currState |-> None, idx |-> 0,
      constrainsRes |-> None, decideRes |-> None, evt |-> << >>,
      state |-> None, result |-> None, overlap |-> FALSE ]

ConcIdle ==
    /\ frame = [ i \in Callers |-> IdleFrame ]
    /\ cells = [ k \in CellIds |-> None ]

\* composeWf(_parseState)(_constrains)(_decide)(_evolve) has been called
Init ==
    /\ \E w \in Compositions :
         /\ _parseState = w.parseState
         /\ _constrains = w.constrains
         /\ _decide = w.decide
    /\ WfIdle
    /\ MsgInit
    /\ LibIdle
    /\ ConcIdle

\* a caller invokes wf.execute(cmd)(st) or wf.decide(cmd)(st)
Invoke(e, cmd, st) ==
    /\ pc \in { "idle", "done" }
    /\ pc' = "parse"
    /\ entry' = e
    /\ c' = cmd
    /\ s' = st
    /\ parsingRes' = None
    /\ currState' = None
    /\ acc' = None
    /\ idx' = 0
    /\ constrainsRes' = None
    /\ decideRes' = None
    /\ evt' = <<>>
    /\ state' = None
    /\ result' = None
    /\ calls' = <<>>
    /\ UNCHANGED <<_parseState, _constrains, _decide>>
    /\ UNCHANGED <<msgVars, libVars, concVars>>

ExecuteCall == \E cmd \in Cmds, st \in States : Invoke("execute", cmd, st)

DecideCall == \E cmd \in Cmds, st \in States : Invoke("decide", cmd, st)

\* const parsingRes = _parseState(s), and the entry of
\* acceptRes(applyConstrains(_constrains)(c))(parsingRes)
ParseStep ==
    /\ pc = "parse"
    /\ LET res == ParseState(_parseState, s)
           a == acceptRes(res)
       IN
         /\ parsingRes' = res
         /\ calls' = Append(calls, Call("parseState", 0, s, res))
         /\ IF a.call
            THEN /\ currState' = a.arg
                 /\ acc' = applyConstrainsInit(a.arg)
                 /\ idx' = 1
                 /\ pc' = "constrain"
                 /\ UNCHANGED constrainsRes
            ELSE /\ constrainsRes' = a.ret
                 /\ pc' = "decide"
                 /\ UNCHANGED <<currState, acc, idx>>
    /\ UNCHANGED <<entry, c, s, _parseState, _constrains, _decide,
                   decideRes, evt, state, result>>
    /\ UNCHANGED <<msgVars, libVars, concVars>>

\* one iteration of fns.reduce in applyConstrains
ConstrainStep ==
    /\ pc = "constrain"
    /\ idx <= Len(_constrains)
    /\ LET res == Constrain(_constrains[idx], c, currState) IN
         /\ acc' = applyConstrainsReducer(acc, res)
         /\ calls' = Append(calls, Call("constrain", idx, currState, res))
    /\ idx' = idx + 1
    /\ UNCHANGED <<pc, entry, c, s, _parseState, _constrains, _decide, parsingRes,
                   currState, constrainsRes, decideRes, evt, state, result>>
    /\ UNCHANGED <<msgVars, libVars, concVars>>

\* applyConstrains(fns)(cmd)(currState) as a function of its arguments: the
\* value of acc.res after the reducer has run over the first n constraints
RECURSIVE applyConstrainsAcc(_, _, _, _)
applyConstrainsAcc(fns, cmd, cs, n) ==
    IF n = 0 THEN applyConstrainsInit(cs)
    ELSE applyConstrainsReducer(applyConstrainsAcc(fns, cmd, cs, n - 1),
                                Constrain(fns[n], cmd, cs))

applyConstrains(fns, cmd, cs) == applyConstrainsAcc(fns, cmd, cs, Len(fns)).res

\* return acc.res
ApplyConstrainsReturn ==
    /\ pc = "constrain"
    /\ idx > Len(_constrains)
    /\ constrainsRes' = acc.res
    /\ pc' = "decide"
    /\ UNCHANGED <<entry, c, s, _parseState, _constrains, _decide, parsingRes,
                   currState, acc, idx, decideRes, evt, state, result, calls>>
    /\ UNCHANGED <<msgVars, libVars, concVars>>

\* a variant that folds over the validated state
foldInitValidated == IF isSuccess(parsingRes) THEN parsingRes.data ELSE s

\* the initial value of evt.reduce(_evolve, s)
foldInit == s

\* const decideRes = acceptRes(_decide(c))(constrainsRes), then the rest of
\* the function up to evt.reduce
DecideStep ==
    /\ pc = "decide"
    /\ LET a == acceptRes(constrainsRes)
           res == IF a.call THEN Decide(_decide, c, a.arg) ELSE a.ret
           bind == Call("decide_bind", 0, c, None)
       IN
         /\ decideRes' = res
         /\ calls' = IF a.call
                     THEN calls \o << bind, Call("decide", 0, a.arg, res) >>
                     ELSE Append(calls, bind)
         /\ IF entry = "decide"
            THEN /\ result' = res
                 /\ pc' = "done"
                 /\ UNCHANGED <<evt, state, idx>>
            ELSE IF isFailure(res)
                 THEN /\ result' = failWithRes(res)
                      /\ pc' = "done"
                      /\ UNCHANGED <<evt, state, idx>>
                 ELSE /\ evt' = res.data
                      /\ state' = foldInit
                      /\ idx' = 1
                      /\ pc' = "fold"
                      /\ UNCHANGED result
    /\ UNCHANGED <<entry, c, s, _parseState, _constrains, _decide, parsingRes,
                   currState, acc, constrainsRes>>
    /\ UNCHANGED <<msgVars, libVars, concVars>>

\* one iteration of evt.reduce(_evolve, s)
FoldStep ==
    /\ pc = "fold"
    /\ idx <= Len(evt)
    /\ state' = evolveReducer(state, evt[idx])
    /\ calls' = Append(calls, Call("evolve", idx, state, None))
    /\ idx' = idx + 1
    /\ UNCHANGED <<pc, entry, c, s, _parseState, _constrains, _decide, parsingRes,
                   currState, acc, constrainsRes, decideRes, evt, result>>
    /\ UNCHANGED <<msgVars, libVars, concVars>>

\* a variant that returns the events without the state
ExecuteReturnEvtOnly ==
    /\ pc = "fold"
    /\ idx > Len(evt)
    /\ result' = succeed([evt |-> evt])
    /\ pc' = "done"
    /\ UNCHANGED <<entry, c, s, _parseState, _constrains, _decide, parsingRes,
                   currState, acc, idx, constrainsRes, decideRes, evt, state, calls>>
    /\ UNCHANGED <<msgVars, libVars, concVars>>

\* return succeed({evt, state})
ExecuteReturn ==
    /\ pc = "fold"
    /\ idx > Len(evt)
    /\ result' = succeed([evt |-> evt, state |-> state])
    /\ pc' = "done"
    /\ UNCHANGED <<entry, c, s, _parseState, _constrains, _decide, parsingRes,
                   currState, acc, idx, constrainsRes, decideRes, evt, state, calls>>
    /\ UNCHANGED <<msgVars, libVars, concVars>>

Next ==
    \/ ExecuteCall
    \/ DecideCall
    \/ ParseStep
    \/ ConstrainStep
    \/ ApplyConstrainsReturn
    \/ DecideStep
    \/ FoldStep
    \/ ExecuteReturn

Spec == Init /\ [][Next]_vars

----------------------------------------------------------------------------
(* Properties of the workflow composition engine *)

\* positions in the call log of the calls made to fn
CallIdx(fn) == { k \in DOMAIN calls : calls[k].fn = fn }

Min(S) == CHOOSE x \in S : \A y \in S : x <= y

\* the constraints of the list that fail on (c, validated state)
FailingCons ==
    { i \in 1 .. Len(_constrains) :
        isFailure(Constrain(_constrains[i], c, parsingRes.data)) }

\* the left-to-right fold of the evolution function over es, starting at st
RECURSIVE FoldLeft(_, _)
FoldLeft(es, st) ==
    IF es = << >> THEN st ELSE FoldLeft(Tail(es), Evolve(Head(es), st))

C2_FirstFailureWins ==
    (pc = "done" /\ entry = "execute" /\ isSuccess(parsingRes) /\ FailingCons # {})
    => /\ result = Constrain(_constrains[Min(FailingCons)], c, parsingRes.data)
       /\ (Len(_constrains) = 2 /\ FailingCons = { 1, 2 })
            => applyConstrains(<< _constrains[2], _constrains[1] >>, c, parsingRes.data)
                 = Constrain(_constrains[2], c, parsingRes.data)

C2_Witness ==
    /\ pc = "done"
    /\ entry = "execute"
    /\ _constrains = << "failB", "failA" >>
    /\ result = fail("cons_b", c)

\* C3 (as claimed): once a constraint of the list has returned a failure, no
\* later constraint of the list is invoked during that execution.
C3_NoConstraintAfterFailure ==
    \A i \in CallIdx("constrain"), j \in CallIdx("constrain") :
        (i < j) => ~isFailure(calls[i].res)

C5_DecideFailurePropagates ==
    (pc = "done" /\ entry = "execute")
    => \A k \in CallIdx("decide") :
          isFailure(calls[k].res)
          => /\ result = calls[k].res
             /\ result.cause = Decide(_decide, c, calls[k].arg).cause
             /\ DOMAIN result = { "outcome", "cause" }
             /\ CallIdx("evolve") = {}
             /\ evt = << >>
             /\ state = None

C5_Witness ==
    /\ pc = "done"
    /\ entry = "execute"
    /\ \E k \in CallIdx("decide") : isFailure(calls[k].res)
    /\ Len(_constrains) >= 1

\* C6 (as claimed): when the decision succeeds with [e1, ..., en], the state
\* returned by execute is the left-to-right fold of the evolution function
\* over the events from the original state, and the returned events are
\* exactly [e1, ..., en] in that order.
C6_StateIsFoldOfEvents ==
    (pc = "done" /\ entry = "execute" /\ isSuccess(result))
    => /\ result.data.evt = decideRes.data
       /\ result.data.state = FoldLeft(decideRes.data, s)

\* C7: when the decision succeeds with an empty event list, execute succeeds,
\* the evolution function is never invoked and the new state is the input
\* state.
C7_EmptyDecisionNoOp ==
    (pc = "done" /\ entry = "execute"
        /\ \E k \in CallIdx("decide") : calls[k].res = succeed(<< >>))
    => /\ isSuccess(result)
       /\ result.data.evt = << >>
       /\ result.data.state = s
       /\ CallIdx("evolve") = {}

C7_Witness ==
    /\ pc = "done"
    /\ entry = "execute"
    /\ \E k \in CallIdx("decide") : calls[k].res = succeed(<< >>)
    /\ parsingRes.data # s

\* C8: with an empty constraint list the constraint stage passes: on every
\* state the validator accepts, no constraint runs, the decision is applied
\* once to the validated state, and the result is the decision's (for execute
\* a failure is the decision's failure, a success carries the decision's
\* events).
C8_EmptyConstraintsPass ==
    (pc = "done" /\ Len(_constrains) = 0 /\ isSuccess(ParseState(_parseState, s)))
    => /\ CallIdx("constrain") = {}
       /\ constrainsRes = succeed(ParseState(_parseState, s).data)
       /\ \E k \in CallIdx("decide") :
            /\ CallIdx("decide") = { k }
            /\ calls[k].arg = ParseState(_parseState, s).data
            /\ calls[k].res = Decide(_decide, c, calls[k].arg)
            /\ entry = "decide" => result = calls[k].res
            /\ entry = "execute" =>
                 IF isFailure(calls[k].res)
                 THEN result = calls[k].res
                 ELSE isSuccess(result) /\ result.data.evt = calls[k].res.data

C8_Witness ==
    /\ pc = "done"
    /\ entry = "execute"
    /\ Len(_constrains) = 0
    /\ isSuccess(result)
    /\ Len(result.data.evt) >= 1

----------------------------------------------------------------------------
(* Message and causality builder *)

\* Identifiers are integers: uuid() hands out 1, 2, 3, ... (it never repeats
\* a value), identifiers chosen by a caller are negative, and 0 stands for
\* the JavaScript value undefined.
Undefined == 0
ExtIds == { -1, -2 }

\* the n-th value returned by uuid()
uuid(n) == n

\* the domaintrace argument when the caller passes none
NoTrace == [kind |-> "undefined"]

\* DomainTrace
DT(corr, caus) == [correlationid |-> corr, causationid |-> caus]

Payloads == { [kind |-> "payload", ok |-> TRUE], [kind |-> "payload", ok |-> FALSE] }

\* __schema__.ts Msg(M, T, D): the TypeBox schema of a message
Msg(M, T, D) == [msgType |-> M, type |-> T, data |-> D]

\* Value.Assert(schema, data) returns without throwing
ValueAssert(schema, data) ==
    /\ data.id # Undefined
    /\ data.msgType = schema.msgType
    /\ data.type = schema.type
    /\ data.correlationid # Undefined
    /\ data.data \in schema.data

\* a variant without the try / catch: the error of Value.Assert escapes
safeParseTBoxThrows(schema, data) ==
    IF ValueAssert(schema, data)
    THEN succeed(data)
    ELSE [outcome |-> "thrown", error |-> [kind |-> "AssertError", value |-> data]]

\* safeParseTBox(schema)(data)
safeParseTBox(schema, data) ==
    IF ValueAssert(schema, data)
    THEN succeed(data)
    ELSE fail("parse_error", [kind |-> "AssertError", value |-> data])

\* a variant that takes the id of the message from its trace
newMsgIdFromTrace(msgType, type, domaintrace, data, id, timestamp) ==
    [ id            |-> domaintrace.correlationid,
      msgType       |-> msgType,
      type          |-> type,
      timestamp     |-> timestamp,
      correlationid |-> domaintrace.correlationid,
      causationid   |-> domaintrace.causationid,
      data          |-> data ]

\* newMsg(msgType)(type)(domaintrace)(data), with the values uuid() and
\* Date.now() return
newMsg(msgType, type, domaintrace, data, id, timestamp) ==
    [ id            |-> id,
      msgType       |-> msgType,
      type          |-> type,
      timestamp     |-> timestamp,
      correlationid |-> domaintrace.correlationid,
      causationid   |-> domaintrace.causationid,
      data          |-> data ]

\* cleanDT(dt), with the value its call of uuid() returns
cleanDT(dt, fresh) ==
    LET newCorr == fresh
        newCaus == Undefined
        newDT   == DT(newCorr, newCaus)
    IN  IF dt = NoTrace THEN newDT
        ELSE IF dt.correlationid = Undefined THEN DT(newCorr, dt.causationid)
        ELSE dt

\* a variant that hands on the causation of the message instead of its id
dtFromMsgCopy(msg) == DT(msg.correlationid, msg.causationid)

\* dtFromMsg(msg)
dtFromMsg(msg) == DT(msg.correlationid, msg.id)

\* the traces a caller writes by hand
HandTraces ==
    { NoTrace, DT(Undefined, Undefined), DT(Undefined, -1), DT(-1, -2) }

\* the payloads the schema of a message type accepts
ValidPayloads == { d \in Payloads : d.ok }

\* a variant that returns the assembled message without parsing it
parsedNewMsgUnparsed(msgType, type, domaintrace, parent, data, tick) ==
    /\ Len(built) < MaxMsgs
    /\ now + tick <= MaxClock
    /\ LET dt  == cleanDT(domaintrace, uuid(uuidCount + 1))
           msg == newMsg(msgType, type, dt, data, uuid(uuidCount + 2), now + tick)
       IN  built' = Append(built,
                [ msgType     |-> msgType,
                  type        |-> type,
                  data        |-> data,
                  domaintrace |-> domaintrace,
                  parent      |-> parent,
                  uuidBefore  |-> uuidCount,
                  msg         |-> msg,
                  res         |-> succeed(msg) ])
    /\ uuidCount' = uuidCount + 2
    /\ now' = now + tick
    /\ UNCHANGED <<wfVars, libVars, concVars>>

\* parsedNewMsg(newMsg)(msgType)(cleanDT)(parseMsg)(type)(domaintrace)(data),
\* where parseMsg is safeParseTBox of the schema of (msgType, type), and
\* parent is the position in built of the message the trace was taken from
\* (0 for a trace written by hand)
parsedNewMsg(msgType, type, domaintrace, parent, data, tick) ==
    /\ Len(built) < MaxMsgs
    /\ now + tick <= MaxClock
    /\ LET dt  == cleanDT(domaintrace, uuid(uuidCount + 1))
           msg == newMsg(msgType, type, dt, data, uuid(uuidCount + 2), now + tick)
           res == safeParseTBox(Msg(msgType, type, ValidPayloads), msg)
       IN  built' = Append(built,
                [ msgType     |-> msgType,
                  type        |-> type,
                  data        |-> data,
                  domaintrace |-> domaintrace,
                  parent      |-> parent,
                  uuidBefore  |-> uuidCount,
                  msg         |-> msg,
                  res         |-> res ])
    /\ uuidCount' = uuidCount + 2
    /\ now' = now + tick
    /\ UNCHANGED <<wfVars, libVars, concVars>>

\* the traces a caller can pass: written by hand, or dtFromMsg of a message
\* built before
TraceArgs ==
    { [dt |-> h, parent |-> 0] : h \in HandTraces }
    \cup { [dt |-> dtFromMsg(built[k].res.data), parent |-> k] :
             k \in { j \in DOMAIN built : isSuccess(built[j].res) } }

\* newCmd(parseCmd)(type)(domaintrace)(data)
newCmd ==
    \E a \in TraceArgs, data \in Payloads, tick \in { 0, 1 } :
        parsedNewMsg("cmd", "create-X", a.dt, a.parent, data, tick)

\* newEvt(parseEvt)(type)(domaintrace)(data)
newEvt ==
    \E a \in TraceArgs, data \in Payloads, tick \in { 0, 1 } :
        parsedNewMsg("evt", "X-created", a.dt, a.parent, data, tick)

MsgSpecInit ==
    /\ _parseState = "all"
    /\ _constrains = << >>
    /\ _decide = [fails |-> FALSE, evts |-> << >>]
    /\ WfIdle
    /\ MsgInit
    /\ LibIdle
    /\ ConcIdle

MsgNext ==
    \/ newCmd
    \/ newEvt

MsgSpec == MsgSpecInit /\ [][MsgNext]_vars

----------------------------------------------------------------------------
(* Properties of the message builder *)

\* the root of the chain the k-th built message belongs to
RECURSIVE Root(_)
Root(k) == IF built[k].parent = 0 THEN k ELSE Root(built[k].parent)

\* C9 (as claimed): when no trace is given, or the given trace lacks a
\* correlationid, the built message has a freshly generated correlationid and
\* no causationid, even if the given trace carried one; when the trace has a
\* correlationid the message carries the given correlationid and causationid.
C9_TraceNormalized ==
    \A k \in DOMAIN built :
        LET b == built[k] IN
        IF b.domaintrace = NoTrace \/ b.domaintrace.correlationid = Undefined
        THEN /\ b.msg.correlationid > b.uuidBefore
             /\ b.msg.correlationid # b.msg.id
             /\ b.msg.causationid = Undefined
        ELSE /\ b.msg.correlationid = b.domaintrace.correlationid
             /\ b.msg.causationid = b.domaintrace.causationid

\* C10: in a chain of successfully built messages whose first message was
\* built with no trace and whose every other message was built with
\* dtFromMsg of its predecessor, every message has the correlationid of the
\* first, the first has no causationid, and every other message has the id
\* of its predecessor as causationid.
C10_CausalChain ==
    \A k \in DOMAIN built :
        (isSuccess(built[k].res) /\ built[Root(k)].domaintrace = NoTrace)
        => LET m == built[k].res.data
               p == built[k].parent
           IN  /\ m.correlationid = built[Root(k)].res.data.correlationid
               /\ p = 0 => m.causationid = Undefined
               /\ p # 0 => m.causationid = built[p].res.data.id

C10_Witness ==
    \E k \in DOMAIN built :
        /\ isSuccess(built[k].res)
        /\ built[k].parent # 0
        /\ built[built[k].parent].parent # 0
        /\ built[Root(k)].domaintrace = NoTrace

\* the schema the k-th built message was parsed with
SchemaOf(k) == Msg(built[k].msgType, built[k].type, ValidPayloads)

\* the k-th message was built as the root of a new chain: cleanDT generated
\* its correlationid
GeneratedRoot(k) ==
    \/ built[k].domaintrace = NoTrace
    \/ built[k].domaintrace.correlationid = Undefined

\* C11: after any sequence of message constructions, no two constructed
\* messages have the same id, and the correlationid generated for a chain
\* root differs from the correlationid of every message built before it
\* (uuid() never repeats a value).
C11_UniqueIds ==
    /\ \A j \in DOMAIN built, k \in DOMAIN built :
          j # k => built[j].msg.id # built[k].msg.id
    /\ \A j \in DOMAIN built, k \in DOMAIN built :
          (j < k /\ GeneratedRoot(k))
          => built[k].msg.correlationid # built[j].msg.correlationid

C11_Witness ==
    /\ Len(built) = MaxMsgs
    /\ \E j \in DOMAIN built, k \in DOMAIN built :
          /\ j < k
          /\ built[j].domaintrace = NoTrace
          /\ built[k].domaintrace = NoTrace
          /\ built[j].msgType # built[k].msgType
    /\ \E k \in DOMAIN built : built[k].parent # 0

\* C12: newCmd / newEvt return a Success only when the validator accepts the
\* assembled record (id, msgType, type, timestamp, normalized trace, data),
\* and the Success carries exactly that record; when the validator rejects
\* the record the result is the validator's failure and carries no message.
C12_ValidatedConstruction ==
    \A k \in DOMAIN built :
        LET b  == built[k]
            dt == cleanDT(b.domaintrace, uuid(b.uuidBefore + 1))
        IN  /\ b.msg.id = uuid(b.uuidBefore + 2)
            /\ b.msg.msgType = b.msgType
            /\ b.msg.type = b.type
            /\ b.msg.data = b.data
            /\ DT(b.msg.correlationid, b.msg.causationid) = dt
            /\ DOMAIN b.msg = { "id", "msgType", "type", "timestamp",
                                "correlationid", "causationid", "data" }
            /\ isSuccess(b.res) =>
                  /\ ValueAssert(SchemaOf(k), b.msg)
                  /\ b.res.data = b.msg
            /\ ~ValueAssert(SchemaOf(k), b.msg) =>
                  /\ isFailure(b.res)
                  /\ DOMAIN b.res = { "outcome", "cause" }

C12_Witness ==
    /\ \E k \in DOMAIN built : isSuccess(built[k].res) /\ built[k].parent # 0
    /\ \E k \in DOMAIN built : isFailure(built[k].res)

\* C13: safeParseTBox(schema)(data) never throws: when the schema check
\* passes it returns a Success carrying the input unchanged, and when the
\* check raises it returns a Failure with exactly one cause, whose code is
\* the one structural code 'parse_error' and whose data is the violation.
C13_SafeParseNeverThrows ==
    \A k \in DOMAIN built :
        LET r == built[k].res
            m == built[k].msg
        IN  /\ r.outcome \in { "success", "failure" }
            /\ ValueAssert(SchemaOf(k), m) => r = succeed(m)
            /\ ~ValueAssert(SchemaOf(k), m) =>
                  /\ isFailure(r)
                  /\ Len(r.cause) = 1
                  /\ r.cause[1].msg = "parse_error"
                  /\ r.cause[1].data = [kind |-> "AssertError", value |-> m]

C13_Witness ==
    /\ \E k \in DOMAIN built : isFailure(built[k].res) /\ built[k].msgType = "cmd"
    /\ \E k \in DOMAIN built : isSuccess(built[k].res) /\ built[k].msgType = "evt"

----------------------------------------------------------------------------
(* Calls of the library: aggregates, policies, the command router and the  *)
(* Result combinators.  Each action is one call of one function; it        *)
(* records the arguments, the value returned and the calls the function    *)
(* made to the functions it was given.                                     *)

\* an argument that was left out: fail(code) has data undefined
NoData == [kind |-> "undefined"]

\* the state after the call of the function op with the arguments in
LibCall(op, in, out, log) ==
    /\ libOp' = op
    /\ libIn' = in
    /\ libOut' = out
    /\ libCalls' = log
    /\ libApplied' = None
    /\ UNCHANGED <<wfVars, msgVars, concVars>>

\* ---- aggregates (aggregate.ts) ----

AggTags == { "waste", "bin" }

\* p: SafeParse<AGG<T, D>>, the validator of the aggregates tagged tag
ParseAgg(tag, aggregate) ==
    IF aggregate._tag = tag /\ aggregate.data \in ValidPayloads
    THEN succeed(aggregate)
    ELSE fail("parse_error", [kind |-> "AssertError", value |-> aggregate])

\* a variant that returns the assembled aggregate without parsing it
_newAggUnparsed(p, _tag, data) ==
    LET aggregate == [_tag |-> _tag, data |-> data]
    IN  succeed(aggregate)

\* _newAgg(p)(_tag)(data)
_newAgg(p, _tag, data) ==
    LET aggregate == [_tag |-> _tag, data |-> data]
        parseRes  == ParseAgg(p, aggregate)
    IN  parseRes

\* newAgg()(p)(_tag)(data), p being the validator of some tag
newAgg ==
    /\ libOp = "none"
    /\ \E p \in AggTags, _tag \in AggTags, data \in Payloads :
           LibCall("newAgg",
                   [p |-> p, _tag |-> _tag, data |-> data],
                   _newAgg(p, _tag, data),
                   << Call("p", 0, [_tag |-> _tag, data |-> data],
                           ParseAgg(p, [_tag |-> _tag, data |-> data])) >>)

\* ---- policies (policies.ts) ----

InvariantKinds == { "holds", "broken", "brokenOnDbl", "bump" }

\* InvariantPy<E, S, F>: (evt) => (state) => Result<S, F>
InvariantPy(kind, e, st) ==
    CASE kind = "holds"       -> succeed(st)
      [] kind = "broken"      -> fail("invariant_broken", st)
      [] kind = "brokenOnDbl" -> IF e.type = "dbl" THEN fail("invariant_broken", e)
                                                   ELSE succeed(st)
      [] kind = "bump"        -> succeed(St((st.v + 1) % (MaxState + 1)))

ConstrainPyKinds == { "pass", "failA", "failB", "failOnZero" }

\* ConstrainPy<E, S, F>: (evt) => (currState) => Result<S, F>
ConstrainPy(kind, e, cs) ==
    CASE kind = "pass"       -> succeed(cs)
      [] kind = "failA"      -> fail("cons_a", cs)
      [] kind = "failB"      -> fail("cons_b", e)
      [] kind = "failOnZero" -> IF cs.v = 0 THEN fail("cons_zero", cs) ELSE succeed(cs)

ExecuteKinds == { "emit", "emitByState", "refuse" }

\* CorePyFn<E, S, C, F>: (e) => (s) => Result<C, F>
ExecutePy(kind, e, st) ==
    CASE kind = "emit"        -> succeed(Cmd("c1"))
      [] kind = "emitByState" -> succeed(Cmd(IF st.v = 0 THEN "c1" ELSE "c2"))
      [] kind = "refuse"      -> fail("execute_failed", st)

\* the initial value of fns.reduce in applyConstrainsPy
applyConstrainsPyInit(cs) == [failedOnce |-> FALSE, res |-> succeed(cs)]

\* a variant that keeps the last failure instead of the first
applyConstrainsPyReducerLast(a, res) ==
    IF isFailure(res) THEN [failedOnce |-> TRUE, res |-> res] ELSE a

\* the reducer callback of applyConstrainsPy, given the constraint's result
applyConstrainsPyReducer(a, res) ==
    IF isFailure(res)
    THEN IF ~a.failedOnce THEN [failedOnce |-> TRUE, res |-> res] ELSE a
    ELSE a

\* the accumulator of applyConstrainsPy(fns)(evt)(currState) after the
\* reducer has run over the first n constraints
RECURSIVE applyConstrainsPyAcc(_, _, _, _)
applyConstrainsPyAcc(fns, e, cs, n) ==
    IF n = 0 THEN applyConstrainsPyInit(cs)
    ELSE applyConstrainsPyReducer(applyConstrainsPyAcc(fns, e, cs, n - 1),
                                  ConstrainPy(fns[n], e, cs))

\* applyConstrainsPy(fns)(evt)(currState): return acc.res
applyConstrainsPy(fns, e, cs) == applyConstrainsPyAcc(fns, e, cs, Len(fns)).res

\* the calls fns.reduce makes: every constraint of the list, in order
applyConstrainsPyCalls(fns, e, cs) ==
    [ i \in 1 .. Len(fns) |-> Call("constrain", i, cs, ConstrainPy(fns[i], e, cs)) ]

\* composePy(_parsing)(_invariants)(_constrains)(_execute)(evt)(currState):
\* the value returned and the calls made, in order.  _invariants(evt) and
\* _execute(evt) are evaluated as arguments of acceptRes, whatever the
\* result acceptRes is then applied to.
composePyRun(parsing, invariants, fns, execute, e, cs) ==
    LET parsingResPy    == ParseState(parsing, cs)
        a1              == acceptRes(parsingResPy)
        invariantsRes   == IF a1.call THEN InvariantPy(invariants, e, a1.arg) ELSE a1.ret
        a2              == acceptRes(invariantsRes)
        constrainsResPy == IF a2.call THEN applyConstrainsPy(fns, e, a2.arg) ELSE a2.ret
        a3              == acceptRes(constrainsResPy)
        executeRes      == IF a3.call THEN ExecutePy(execute, e, a3.arg) ELSE a3.ret
    IN  [ ret |-> executeRes,
          log |-> << Call("parsing", 0, cs, parsingResPy),
                     Call("invariant_bind", 0, e, None) >>
                  \o (IF a1.call THEN << Call("invariant", 0, a1.arg, invariantsRes) >>
                                 ELSE << >>)
                  \o (IF a2.call THEN applyConstrainsPyCalls(fns, e, a2.arg) ELSE << >>)
                  \o << Call("execute_bind", 0, e, None) >>
                  \o (IF a3.call THEN << Call("execute", 0, a3.arg, executeRes) >>
                                 ELSE << >>) ]

\* a caller runs a composed policy on an event and a state
composePy ==
    /\ libOp = "none"
    /\ \E parsing \in ParserKinds, invariants \in InvariantKinds,
          fns \in SeqsUpTo(ConstrainPyKinds, MaxCons), execute \in ExecuteKinds,
          e \in Events, cs \in States :
           LET run == composePyRun(parsing, invariants, fns, execute, e, cs)
           IN  LibCall("composePy",
                       [ parsing |-> parsing, invariants |-> invariants,
                         constrains |-> fns, execute |-> execute,
                         evt |-> e, currState |-> cs ],
                       run.ret, run.log)

\* ---- the command router of the waste example ----

\* the command types of the union WasteCmd
DeclaredTypes == { "new-waste", "weight-waste", "store-waste",
                   "set-pending-approval", "set-ready-for-shipping", "ship-waste" }

\* the workflows the router imports
ImplementedTypes == { "new-waste", "weight-waste" }

\* a command type outside the union, as an untyped caller can send
UndeclaredTypes == { "burn-waste" }

WasteCmds == { Cmd(t) : t \in DeclaredTypes \cup UndeclaredTypes }

WasteWfKinds == { "emits", "rejects", "rejectsZero" }

\* newWasteWf / weightWasteWf: (cmd) => (currState) => Result<WasteEvent, WasteWfFails>
WasteWorkflow(kind, cmd, st) ==
    CASE kind = "emits"       -> succeed([kind |-> "evt", type |-> cmd.type, on |-> st])
      [] kind = "rejects"     -> fail("weighting_waste_not_allowed", cmd)
      [] kind = "rejectsZero" -> IF st.v = 0 THEN fail("invalid_waste_state", st)
                                 ELSE succeed([kind |-> "evt", type |-> cmd.type, on |-> st])

\* a variant with the two codes exchanged
_wasteWfSwapped(newWasteWf, weightWasteWf, cmd, cs) ==
    CASE cmd.type = "new-waste"              -> WasteWorkflow(newWasteWf, cmd, cs)
      [] cmd.type = "weight-waste"           -> WasteWorkflow(weightWasteWf, cmd, cs)
      [] cmd.type = "store-waste"            -> fail("invalid_command_type", NoData)
      [] cmd.type = "set-pending-approval"   -> fail("invalid_command_type", NoData)
      [] cmd.type = "set-ready-for-shipping" -> fail("invalid_command_type", NoData)
      [] cmd.type = "ship-waste"             -> fail("invalid_command_type", NoData)
      [] OTHER                               -> fail("not_implemented", NoData)

\* _wasteWf(cmd)(currState), given the two imported workflows
_wasteWf(newWasteWf, weightWasteWf, cmd, cs) ==
    CASE cmd.type = "new-waste"              -> WasteWorkflow(newWasteWf, cmd, cs)
      [] cmd.type = "weight-waste"           -> WasteWorkflow(weightWasteWf, cmd, cs)
      [] cmd.type = "store-waste"            -> fail("not_implemented", NoData)
      [] cmd.type = "set-pending-approval"   -> fail("not_implemented", NoData)
      [] cmd.type = "set-ready-for-shipping" -> fail("not_implemented", NoData)
      [] cmd.type = "ship-waste"             -> fail("not_implemented", NoData)
      [] OTHER                               -> fail("invalid_command_type", NoData)

\* the calls _wasteWf makes to the imported workflows
_wasteWfCalls(newWasteWf, weightWasteWf, cmd, cs) ==
    CASE cmd.type = "new-waste" ->
            << Call("newWasteWf", 0, [cmd |-> cmd, currState |-> cs],
                    WasteWorkflow(newWasteWf, cmd, cs)) >>
      [] cmd.type = "weight-waste" ->
            << Call("weightWasteWf", 0, [cmd |-> cmd, currState |-> cs],
                    WasteWorkflow(weightWasteWf, cmd, cs)) >>
      [] OTHER -> << >>

\* a caller dispatches a command to the router
wasteWf ==
    /\ libOp = "none"
    /\ \E newWasteWf \in WasteWfKinds, weightWasteWf \in WasteWfKinds,
          cmd \in WasteCmds, cs \in States :
           LibCall("_wasteWf",
                   [ newWasteWf |-> newWasteWf, weightWasteWf |-> weightWasteWf,
                     cmd |-> cmd, currState |-> cs ],
                   _wasteWf(newWasteWf, weightWasteWf, cmd, cs),
                   _wasteWfCalls(newWasteWf, weightWasteWf, cmd, cs))

\* ---- the Result combinators (result.ts) ----

StageKinds == { "same", "inc", "failX", "failOnZero" }

\* a Result-returning function handed to acceptRes
Stage(kind, x) ==
    CASE kind = "same"       -> succeed(x)
      [] kind = "inc"        -> succeed(St((x.v + 1) % (MaxState + 1)))
      [] kind = "failX"      -> fail("stage_x", x)
      [] kind = "failOnZero" -> IF x.v = 0 THEN fail("stage_zero", x) ELSE succeed(x)

Codes == { "in_a", "in_b" }

\* Cause<F> = { msg: F; data?: any }
Causes == { [msg |-> m, data |-> d] : m \in Codes, d \in { NoData, St(1) } }

\* the results a caller hands to a combinator
ResultsIn ==
    { succeed(st) : st \in States }
    \cup { fail("in_a", St(0)),
           failMany(<< [msg |-> "in_a", data |-> NoData],
                       [msg |-> "in_b", data |-> St(1)] >>) }

\* acceptRes(fn)(res): the value returned and the calls made to fn
acceptResRun(fn, res) ==
    LET a == acceptRes(res)
        v == Stage(fn, a.arg)
    IN  IF a.call THEN [ret |-> v, log |-> << Call("fn", 1, a.arg, v) >>]
                  ELSE [ret |-> a.ret, log |-> << >>]

\* a caller applies acceptRes(fn) to a result
CallAcceptRes ==
    /\ libOp = "none"
    /\ \E fn \in StageKinds, res \in ResultsIn :
           LibCall("acceptRes", [fn |-> fn, res |-> res],
                   acceptResRun(fn, res).ret, acceptResRun(fn, res).log)

\* acceptRes(fns[n])( ... acceptRes(fns[1])(res)): the stages chained one at
\* a time, as composePy chains them
RECURSIVE acceptResSeq(_, _, _)
acceptResSeq(fns, res, n) ==
    IF n = 0 THEN [ret |-> res, log |-> << >>]
    ELSE LET prev == acceptResSeq(fns, res, n - 1)
             a    == acceptRes(prev.ret)
             v    == Stage(fns[n], a.arg)
         IN  IF a.call THEN [ret |-> v, log |-> Append(prev.log, Call("fn", n, a.arg, v))]
                       ELSE [ret |-> a.ret, log |-> prev.log]

\* acceptRes(x => acceptRes(y => ...)(fns[k](x)))(res): the stages from the
\* k-th on, nested into one function handed to a single outer acceptRes
RECURSIVE acceptResNested(_, _, _)
acceptResNested(fns, res, k) ==
    IF k > Len(fns) THEN res
    ELSE LET a == acceptRes(res)
         IN  IF a.call THEN acceptResNested(fns, Stage(fns[k], a.arg), k + 1)
                       ELSE a.ret

\* a caller runs a chain of stages over a result, both ways
CallAcceptResChain ==
    /\ libOp = "none"
    /\ \E fns \in SeqsUpTo(StageKinds, MaxStages), res \in ResultsIn :
           LibCall("chain", [fns |-> fns, res |-> res],
                   [ seq    |-> acceptResSeq(fns, res, Len(fns)).ret,
                     nested |-> acceptResNested(fns, res, 1) ],
                   acceptResSeq(fns, res, Len(fns)).log)

\* a caller builds a failure with fail(msg, data?)
CallFail ==
    /\ libOp = "none"
    /\ \E msg \in Codes, data \in { NoData, St(0) } :
           LibCall("fail", [msg |-> msg, data |-> data], fail(msg, data), << >>)

\* a caller builds a failure with failMany(cause)
CallFailMany ==
    /\ libOp = "none"
    /\ \E cause \in SeqsUpTo(Causes, MaxCauses) :
           LibCall("failMany", [cause |-> cause], failMany(cause), << >>)

PartialKinds == { "accepts", "refuses" }

\* a curried function handed to acceptResPartial: fn(x) is a function
PartialFn(kind, x) == Closure(kind, x)

\* fn(x)(b)
PartialApply(kind, x, b) ==
    CASE kind = "accepts" -> succeed([kind |-> "pair", first |-> x, second |-> b])
      [] kind = "refuses" -> fail("refused", b)

\* a variant that returns its second argument
doNothingEcho(a, b) == b

\* doNothing(a)(b)
doNothing(a, b) == a

\* acceptResPartial(fn)(res): a failure gives the stand-in doNothing(res)
\* and fn is not called; on a success fn is called with res['data']
acceptResPartial(res) ==
    IF isFailure(res)
    THEN [call |-> FALSE, arg |-> None, ret |-> Closure("doNothing", res)]
    ELSE [call |-> TRUE, arg |-> res.data, ret |-> None]

\* a caller applies acceptResPartial(fn) to a result
CallAcceptResPartial ==
    /\ libOp = "none"
    /\ \E fn \in PartialKinds, res \in ResultsIn :
           LET a == acceptResPartial(res)
               v == PartialFn(fn, a.arg)
           IN  LibCall("acceptResPartial", [fn |-> fn, res |-> res],
                       IF a.call THEN v ELSE a.ret,
                       IF a.call THEN << Call("fn", 1, a.arg, v) >> ELSE << >>)

\* the caller applies the function acceptResPartial returned to an argument
ApplyReturned ==
    /\ libOp = "acceptResPartial"
    /\ libApplied = None
    /\ \E b \in States \cup Cmds :
           libApplied' =
              [ arg |-> b,
                ret |-> IF libOut.fn = "doNothing"
                        THEN doNothing(libOut.bound, b)
                        ELSE PartialApply(libOut.fn, libOut.bound, b) ]
    /\ UNCHANGED <<libOp, libIn, libOut, libCalls>>
    /\ UNCHANGED <<wfVars, msgVars, concVars>>

\* a variant that returns the result as it is, a success included
splitResWrapped(res) == res

\* splitRes(res)
splitRes(res) == IF isFailure(res) THEN res ELSE res.data

\* a caller ends a pipeline of stages with splitRes
CallSplitRes ==
    /\ libOp = "none"
    /\ \E fns \in SeqsUpTo(StageKinds, MaxStages), res \in ResultsIn :
           LET piped == acceptResSeq(fns, res, Len(fns)).ret
           IN  LibCall("splitRes", [fns |-> fns, res |-> res, piped |-> piped],
                       splitRes(piped),
                       acceptResSeq(fns, res, Len(fns)).log)

\* ---- the safe evolve of a composed workflow ----

\* wf.evolve(e)(s): the value returned and the calls made.  _evolve(e) is
\* evaluated as the argument of acceptRes.
wfEvolve(parseState, e, st) ==
    LET pRes == ParseState(parseState, st)
        a    == acceptRes(pRes)
        v    == Evolve(e, a.arg)
    IN  [ ret |-> IF a.call THEN v ELSE a.ret,
          log |-> << Call("parseState", 0, st, pRes),
                     Call("evolve_bind", 0, e, None) >>
                  \o (IF a.call THEN << Call("evolve", 0, a.arg, v) >> ELSE << >>) ]

\* a caller invokes wf.evolve(e)(st)
EvolveCall ==
    /\ libOp = "none"
    /\ \E parseState \in ParserKinds, e \in Events, st \in States :
           LibCall("evolve", [parseState |-> parseState, e |-> e, s |-> st],
                   wfEvolve(parseState, e, st).ret,
                   wfEvolve(parseState, e, st).log)

\* ---- the instrumentation wrapper (observeSync) ----

\* the members a logger object can have
LoggerMembers == { "info", "warn", "startActiveSpan" }

\* ctx.logger: undefined, or an object with some of the members
Loggers ==
    { [present |-> FALSE, members |-> {}] }
    \cup { [present |-> TRUE, members |-> M] : M \in SUBSET LoggerMembers }

\* ctx: { tracer, logger }, the tracer being undefined or a tracer object
Contexts == [ tracer : BOOLEAN, logger : Loggers ]

\* the inputs handed to the observed function
ObservedInputs == { [kind |-> "msg", msgType |-> "cmd", data |-> St(1)],
                    [kind |-> "msg", msgType |-> "evt", data |-> St(1)],
                    St(0) }

ObservedKinds == { "ok", "ko" }

\* fn: the observed function
ObservedFn(kind, x) ==
    CASE kind = "ok" -> succeed(x)
      [] kind = "ko" -> fail("fn_failed", x)

\* an error raised instead of a value returned
Thrown(error) == [outcome |-> "thrown", error |-> error]

\* the logger call of lines 20-24 and 79-83: warn on a failure, else info
logLine(msg, res) ==
    IF isFailure(res) THEN Call("logger.warn", 0, msg, res)
                      ELSE Call("logger.info", 0, msg, res)

\* innerSync(ctx)(msg)(fn)(c)(span): the value returned and the calls made
innerSync(ctx, msg, fn, x) ==
    LET res == ObservedFn(fn, x)
    IN  [ ret |-> res,
          log |-> << Call("fn", 0, x, res),
                     Call("span.addEvent", 0, res.outcome, res),
                     logLine(msg, res),
                     Call("span.end", 0, None, None) >> ]

\* the attributes of the span, line 71-73
attributes(x) ==
    IF "msgType" \in DOMAIN x /\ x.msgType = "cmd" /\ "data" \in DOMAIN x
    THEN [kind |-> "attributes", msgType |-> x.msgType, data |-> x.data]
    ELSE [kind |-> "attributes", params |-> x]

\* observeSync(ctx)(msg)(fn)(c): the value returned, or the error raised,
\* and the calls made.  The conditions are evaluated left to right;
\* ctx.logger.startActiveSpan on an undefined logger raises a TypeError.
\* The tracer calls the function it is given once, with a span, and returns
\* its value.
observeSyncRun(ctx, msg, fn, x) ==
    IF ctx.tracer /\ ~ctx.logger.present
    THEN [ ret |-> Thrown([kind |-> "TypeError", reading |-> "startActiveSpan"]),
           log |-> << >> ]
    ELSE IF /\ ctx.tracer
            /\ "startActiveSpan" \in ctx.logger.members
            /\ ctx.logger.present
            /\ "info" \in ctx.logger.members
            /\ "warn" \in ctx.logger.members
    THEN [ ret |-> innerSync(ctx, msg, fn, x).ret,
           log |-> << Call("tracer.startActiveSpan", 0, msg, attributes(x)) >>
                   \o innerSync(ctx, msg, fn, x).log ]
    ELSE IF /\ ctx.logger.present
            /\ "info" \in ctx.logger.members
            /\ "warn" \in ctx.logger.members
    THEN [ ret |-> ObservedFn(fn, x),
           log |-> << Call("fn", 0, x, ObservedFn(fn, x)),
                      logLine(msg, ObservedFn(fn, x)) >> ]
    ELSE [ ret |-> ObservedFn(fn, x),
           log |-> << Call("fn", 0, x, ObservedFn(fn, x)) >> ]

\* a caller runs an observed function
observeSync ==
    /\ libOp = "none"
    /\ \E ctx \in Contexts, fn \in ObservedKinds, x \in ObservedInputs :
           LibCall("observeSync", [ctx |-> ctx, msg |-> "wf", fn |-> fn, c |-> x],
                   observeSyncRun(ctx, "wf", fn, x).ret,
                   observeSyncRun(ctx, "wf", fn, x).log)

LibSpecInit ==
    /\ _parseState = "all"
    /\ _constrains = << >>
    /\ _decide = [fails |-> FALSE, evts |-> << >>]
    /\ WfIdle
    /\ MsgInit
    /\ LibIdle
    /\ ConcIdle

LibNext ==
    \/ newAgg
    \/ composePy
    \/ wasteWf
    \/ CallAcceptRes
    \/ CallAcceptResChain
    \/ CallFail
    \/ CallFailMany
    \/ CallAcceptResPartial
    \/ ApplyReturned
    \/ observeSync
    \/ EvolveCall
    \/ CallSplitRes

LibSpec == LibSpecInit /\ [][LibNext]_vars

----------------------------------------------------------------------------
(* Properties of the library calls *)

\* the positions of the log of the library call at which fn was called
LibIdx(fn) == { k \in DOMAIN libCalls : libCalls[k].fn = fn }

\* C14: newAgg(parse)(tag)(data) assembles the record {tag, data} from
\* exactly the given tag and data and returns the validator's verdict on
\* it: a Success carries that record and only when the validator accepts
\* it, otherwise the result is the validator's failure.
C14_AggregateValidated ==
    libOp = "newAgg" =>
        LET aggregate == [_tag |-> libIn._tag, data |-> libIn.data]
            accepted  == aggregate._tag = libIn.p /\ aggregate.data.ok
        IN  /\ Len(libCalls) = 1
            /\ libCalls[1].arg = aggregate
            /\ libOut = libCalls[1].res
            /\ isSuccess(libOut) <=> accepted
            /\ isSuccess(libOut) => libOut.data = aggregate
            /\ ~accepted => /\ isFailure(libOut)
                            /\ DOMAIN libOut = { "outcome", "cause" }

C14_Witness ==
    /\ libOp = "newAgg"
    /\ isFailure(libOut)
    /\ libIn._tag = libIn.p
    /\ ~libIn.data.ok

C16_RoutingTaxonomy ==
    libOp = "_wasteWf" =>
        LET t == libIn.cmd.type IN
        /\ t \notin DeclaredTypes =>
              /\ libOut = fail("invalid_command_type", NoData)
              /\ libCalls = << >>
        /\ t \in DeclaredTypes \ ImplementedTypes =>
              /\ libOut = fail("not_implemented", NoData)
              /\ libCalls = << >>
        /\ t \in ImplementedTypes =>
              /\ Len(libCalls) = 1
              /\ libCalls[1].fn = (IF t = "new-waste" THEN "newWasteWf" ELSE "weightWasteWf")
              /\ libCalls[1].arg = [cmd |-> libIn.cmd, currState |-> libIn.currState]
              /\ libCalls[1].res =
                    WasteWorkflow(IF t = "new-waste" THEN libIn.newWasteWf
                                                     ELSE libIn.weightWasteWf,
                                  libIn.cmd, libIn.currState)
              /\ libOut = libCalls[1].res

C16_Witness ==
    /\ libOp = "_wasteWf"
    /\ libIn.cmd.type \in UndeclaredTypes
    /\ isFailure(libOut)

\* C17: acceptRes(fn)(result) returns a failure result unchanged without
\* invoking fn, and on a success invokes fn exactly once, on result.data,
\* and returns what fn returns.
C17_AcceptRes ==
    libOp = "acceptRes" =>
        /\ isFailure(libIn.res) => /\ libOut = libIn.res
                                   /\ libCalls = << >>
        /\ isSuccess(libIn.res) => /\ Len(libCalls) = 1
                                   /\ libCalls[1].arg = libIn.res.data
                                   /\ libCalls[1].res = Stage(libIn.fn, libIn.res.data)
                                   /\ libOut = libCalls[1].res

C17_Witness ==
    /\ libOp = "acceptRes"
    /\ isFailure(libIn.res)
    /\ Len(libIn.res.cause) = 2
    /\ libOut = libIn.res

\* C18: acceptRes composes associatively: chaining the stages one at a time
\* equals handing their nesting to one acceptRes; a chain of N stages yields
\* the failure of the first failing stage (or the failure it was given), or
\* the result of the last stage, and no stage after a failure is invoked.
C18_AcceptResAssociative ==
    libOp = "chain" =>
        LET N == Len(libIn.fns)
            m == Len(libCalls)
        IN  /\ libOut.seq = libOut.nested
            /\ m <= N
            /\ \A k \in 1 .. m :
                  /\ libCalls[k].idx = k
                  /\ libCalls[k].arg = (IF k = 1 THEN libIn.res.data
                                                 ELSE libCalls[k - 1].res.data)
                  /\ libCalls[k].res = Stage(libIn.fns[k], libCalls[k].arg)
                  /\ k < m => isSuccess(libCalls[k].res)
            /\ m = 0 => libOut.seq = libIn.res
            /\ m > 0 => libOut.seq = libCalls[m].res
            /\ m < N => isFailure(libOut.seq)

C18_Witness ==
    /\ libOp = "chain"
    /\ Len(libIn.fns) = MaxStages
    /\ Len(libCalls) = 2
    /\ isFailure(libOut.seq)

\* C19 (as claimed): every Failure built by fail(code, data?) or by
\* failMany(causes) has a non-empty cause list, and fail builds exactly one
\* cause, whose msg is the given code.
C19_CauseNonEmpty ==
    libOp \in { "fail", "failMany" } =>
        /\ isFailure(libOut)
        /\ Len(libOut.cause) >= 1
        /\ libOp = "fail" => /\ Len(libOut.cause) = 1
                             /\ libOut.cause[1].msg = libIn.msg

\* C20: acceptResPartial(fn)(result) on a failure does not invoke fn and
\* returns a stand-in function that returns that same failure for every
\* argument it is applied to; on a success it returns fn(result.data).
C20_AcceptResPartial ==
    libOp = "acceptResPartial" =>
        /\ isFailure(libIn.res) =>
              /\ libCalls = << >>
              /\ libOut.kind = "closure"
              /\ libApplied # None => libApplied.ret = libIn.res
        /\ isSuccess(libIn.res) =>
              /\ Len(libCalls) = 1
              /\ libCalls[1].arg = libIn.res.data
              /\ libOut = PartialFn(libIn.fn, libIn.res.data)
              /\ libOut = libCalls[1].res

C20_Witness ==
    /\ libOp = "acceptResPartial"
    /\ isFailure(libIn.res)
    /\ libApplied # None
    /\ libApplied.arg \in Cmds
    /\ libApplied.ret = libIn.res

----------------------------------------------------------------------------
(* Concurrent callers of one composed workflow.  Every caller runs          *)
(* wf.execute or wf.decide once, with local variables of its own; the       *)
(* steps of the callers interleave in any order.                            *)

\* a variant in which every call uses the accumulator of the first caller
accOfShared(i) == "a"

\* a variant in which the accumulator is one object at module level
accOfModule(i) == "module"

\* the accumulator { failedOnce, res } is an object literal evaluated by
\* each call of applyConstrains: every call has an object of its own
accOf(i) == i

\* the compositions the callers share
ConcCompositions ==
    [ parseState : { "all", "nonzero" },
      constrains : { << >>, << "failC2" >>, << "failC2", "pass" >>,
                     << "bump", "failC2" >>, << "failC2", "failB" >> },
      decide     : { [fails |-> TRUE,  evts |-> << >>],
                     [fails |-> FALSE, evts |-> << >>],
                     [fails |-> FALSE, evts |-> << Evt("inc"), Evt("dbl") >>] } ]

\* wf.decide(c)(s) as a function of its arguments
wfDecide(cmd, st) ==
    LET pRes == ParseState(_parseState, st)
        a1   == acceptRes(pRes)
        cRes == IF a1.call THEN applyConstrains(_constrains, cmd, a1.arg) ELSE a1.ret
        a2   == acceptRes(cRes)
    IN  IF a2.call THEN Decide(_decide, cmd, a2.arg) ELSE a2.ret

\* evt.reduce(_evolve, init) over the first n events
RECURSIVE evtReduce(_, _, _)
evtReduce(es, init, n) ==
    IF n = 0 THEN init ELSE evolveReducer(evtReduce(es, init, n - 1), es[n])

\* wf.execute(c)(s) as a function of its arguments
wfExecute(cmd, st) ==
    LET pRes == ParseState(_parseState, st)
        a1   == acceptRes(pRes)
        cRes == IF a1.call THEN applyConstrains(_constrains, cmd, a1.arg) ELSE a1.ret
        a2   == acceptRes(cRes)
        dRes == IF a2.call THEN Decide(_decide, cmd, a2.arg) ELSE a2.ret
    IN  IF isFailure(dRes)
        THEN failWithRes(dRes)
        ELSE succeed([evt |-> dRes.data, state |-> evtReduce(dRes.data, st, Len(dRes.data))])

\* some other caller is inside the workflow
OthersBusy(i) == \E j \in Callers \ { i } : frame[j].pc \notin { "idle", "done" }

\* caller i moves to the frame f
Step(i, f) ==
    frame' = [frame EXCEPT ![i] = [f EXCEPT !.overlap = @ \/ OthersBusy(i)]]

\* caller i invokes wf.execute(cmd)(st) or wf.decide(cmd)(st)
ConcInvoke(i, e, cmd, st) ==
    /\ frame[i].pc = "idle"
    /\ Step(i, [IdleFrame EXCEPT !.pc = "parse", !.entry = e, !.c = cmd, !.s = st])
    /\ UNCHANGED cells
    /\ UNCHANGED <<wfVars, msgVars, libVars>>

ConcExecuteCall ==
    \E i \in Callers, cmd \in Cmds, st \in States : ConcInvoke(i, "execute", cmd, st)

ConcDecideCall ==
    \E i \in Callers, cmd \in Cmds, st \in States : ConcInvoke(i, "decide", cmd, st)

\* const parsingRes = _parseState(s), and the entry of applyConstrains
ConcParseStep ==
    \E i \in Callers :
        /\ frame[i].pc = "parse"
        /\ LET f   == frame[i]
               res == ParseState(_parseState, f.s)
               a   == acceptRes(res)
           IN  IF a.call
               THEN /\ Step(i, [f EXCEPT !.parsingRes = res, !.currState = a.arg,
                                         !.idx = 1, !.pc = "constrain"])
                    /\ cells' = [cells EXCEPT ![accOf(i)] = applyConstrainsInit(a.arg)]
               ELSE /\ Step(i, [f EXCEPT !.parsingRes = res, !.constrainsRes = a.ret,
                                         !.pc = "decide"])
                    /\ UNCHANGED cells
        /\ UNCHANGED <<wfVars, msgVars, libVars>>

\* one iteration of fns.reduce in applyConstrains
ConcConstrainStep ==
    \E i \in Callers :
        /\ frame[i].pc = "constrain"
        /\ frame[i].idx <= Len(_constrains)
        /\ LET f   == frame[i]
               res == Constrain(_constrains[f.idx], f.c, f.currState)
           IN  /\ cells' = [cells EXCEPT ![accOf(i)] = applyConstrainsReducer(@, res)]
               /\ Step(i, [f EXCEPT !.idx = @ + 1])
        /\ UNCHANGED <<wfVars, msgVars, libVars>>

\* return acc.res
ConcConstrainsReturn ==
    \E i \in Callers :
        /\ frame[i].pc = "constrain"
        /\ frame[i].idx > Len(_constrains)
        /\ Step(i, [frame[i] EXCEPT !.constrainsRes = cells[accOf(i)].res,
                                    !.pc = "decide"])
        /\ UNCHANGED cells
        /\ UNCHANGED <<wfVars, msgVars, libVars>>

\* const decideRes = acceptRes(_decide(c))(constrainsRes), then the rest of
\* the function up to evt.reduce
ConcDecideStep ==
    \E i \in Callers :
        /\ frame[i].pc = "decide"
        /\ LET f   == frame[i]
               a   == acceptRes(f.constrainsRes)
               res == IF a.call THEN Decide(_decide, f.c, a.arg) ELSE a.ret
           IN  IF f.entry = "decide"
               THEN Step(i, [f EXCEPT !.decideRes = res, !.result = res, !.pc = "done"])
               ELSE IF isFailure(res)
                    THEN Step(i, [f EXCEPT !.decideRes = res,
                                           !.result = failWithRes(res), !.pc = "done"])
                    ELSE Step(i, [f EXCEPT !.decideRes = res, !.evt = res.data,
                                           !.state = f.s, !.idx = 1, !.pc = "fold"])
        /\ UNCHANGED cells
        /\ UNCHANGED <<wfVars, msgVars, libVars>>

\* one iteration of evt.reduce(_evolve, s)
ConcFoldStep ==
    \E i \in Callers :
        /\ frame[i].pc = "fold"
        /\ frame[i].idx <= Len(frame[i].evt)
        /\ Step(i, [frame[i] EXCEPT
                      !.state = evolveReducer(frame[i].state, frame[i].evt[frame[i].idx]),
                      !.idx = @ + 1])
        /\ UNCHANGED cells
        /\ UNCHANGED <<wfVars, msgVars, libVars>>

\* return succeed({evt, state})
ConcExecuteReturn ==
    \E i \in Callers :
        /\ frame[i].pc = "fold"
        /\ frame[i].idx > Len(frame[i].evt)
        /\ Step(i, [frame[i] EXCEPT
                      !.result = succeed([evt |-> frame[i].evt, state |-> frame[i].state]),
                      !.pc = "done"])
        /\ UNCHANGED cells
        /\ UNCHANGED <<wfVars, msgVars, libVars>>

ConcInit ==
    /\ \E w \in ConcCompositions :
         /\ _parseState = w.parseState
         /\ _constrains = w.constrains
         /\ _decide = w.decide
    /\ WfIdle
    /\ MsgInit
    /\ LibIdle
    /\ ConcIdle

ConcNext ==
    \/ ConcExecuteCall
    \/ ConcDecideCall
    \/ ConcParseStep
    \/ ConcConstrainStep
    \/ ConcConstrainsReturn
    \/ ConcDecideStep
    \/ ConcFoldStep
    \/ ConcExecuteReturn

ConcSpec == ConcInit /\ [][ConcNext]_vars

----------------------------------------------------------------------------
(* Properties of concurrent callers *)

\* caller i has returned
Done(i) == frame[i].pc = "done"

\* C21: the composed workflow is deterministic: two invocations of the same
\* entry with identical (cmd, state) return the same outcome, the same
\* events and state or the same failure, whatever other invocation ran
\* before or meanwhile.
C21_Deterministic ==
    \A i \in Callers, j \in Callers :
        ( /\ Done(i) /\ Done(j)
          /\ frame[i].entry = frame[j].entry
          /\ frame[i].c = frame[j].c
          /\ frame[i].s = frame[j].s )
        => frame[i].result = frame[j].result

C21_Witness ==
    /\ \A i \in Callers : Done(i) /\ frame[i].entry = "execute"
    /\ frame["a"].c = frame["b"].c
    /\ frame["a"].s = frame["b"].s
    /\ ~frame["a"].overlap
    /\ isFailure(frame["a"].result)
    /\ frame["a"].result.cause[1].msg = "cons_c2"

\* C22: concurrent invocations of one composed workflow do not interfere:
\* under every interleaving of their steps each invocation returns the
\* result it returns when run alone, and the accumulator of the constraint
\* reducer belongs to one invocation.
C22_NoInterference ==
    \A i \in Callers :
        /\ Done(i) =>
              frame[i].result = (IF frame[i].entry = "execute"
                                 THEN wfExecute(frame[i].c, frame[i].s)
                                 ELSE wfDecide(frame[i].c, frame[i].s))
        /\ frame[i].pc = "constrain" =>
              cells[accOf(i)] = applyConstrainsAcc(_constrains, frame[i].c,
                                                   frame[i].currState, frame[i].idx - 1)

C22_Witness ==
    /\ \A i \in Callers : Done(i) /\ frame[i].overlap /\ frame[i].entry = "execute"
    /\ Len(_constrains) = 2
    /\ isFailure(frame["a"].result)
    /\ isSuccess(frame["b"].result)
    /\ frame["a"].s = frame["b"].s

----------------------------------------------------------------------------
(* Properties of the instrumentation wrapper *)

\* the logger of the context has info and warn
LogsLines(ctx) ==
    ctx.logger.present /\ { "info", "warn" } \subseteq ctx.logger.members

\* the log lines written during the call
LogLines == LibIdx("logger.warn") \cup LibIdx("logger.info")

\* C23 (as claimed): the wrapper is transparent: for every context (tracer
\* present or absent; logger present, partial or absent), every fn and every
\* input c, observeSync(ctx)(msg)(fn)(c) returns exactly the Result fn(c)
\* returns, and fn is invoked exactly once.
C23_ObserveTransparent ==
    libOp = "observeSync" =>
        /\ libOut = ObservedFn(libIn.fn, libIn.c)
        /\ Cardinality(LibIdx("fn")) = 1
        /\ \A k \in LibIdx("fn") : libCalls[k].arg = libIn.c

\* C24 (as claimed): the wrapper does not throw: for every context,
\* a tracer supplied without a logger and a logger lacking info or warn
\* included, and every fn that returns a Result, the call completes without
\* raising an error.
C24_ObserveNeverThrows ==
    libOp = "observeSync" => libOut.outcome # "thrown"

\* C29 (as claimed): with a tracer and a logger that has info and warn,
\* observeSync runs fn inside a span started with tracer.startActiveSpan,
\* records the result on the span, logs exactly one line (warn on a failure,
\* info on a success) and ends the span exactly once; with only such a
\* logger it logs exactly one line by the same rule and starts no span.
C29_ObserveSpanAndLog ==
    (libOp = "observeSync" /\ LogsLines(libIn.ctx)) =>
        /\ Cardinality(LogLines) = 1
        /\ \A k \in LogLines :
              libCalls[k].fn = (IF isFailure(ObservedFn(libIn.fn, libIn.c))
                                THEN "logger.warn" ELSE "logger.info")
        /\ libIn.ctx.tracer =>
              /\ Cardinality(LibIdx("tracer.startActiveSpan")) = 1
              /\ Cardinality(LibIdx("span.addEvent")) = 1
              /\ Cardinality(LibIdx("span.end")) = 1
              /\ \A b \in LibIdx("tracer.startActiveSpan"), f \in LibIdx("fn"),
                    e \in LibIdx("span.end") : b < f /\ f < e
        /\ ~libIn.ctx.tracer => LibIdx("tracer.startActiveSpan") = {}

----------------------------------------------------------------------------
(* Further properties of the composed workflow *)

\* C25: every result of execute is either a Success that carries both the
\* event list and the new state, or a Failure that carries neither: never
\* events without a state, a state without events, or a success payload
\* together with a failure cause.
C25_AllOrNothing ==
    (pc = "done" /\ entry = "execute") =>
        \/ /\ isSuccess(result)
           /\ DOMAIN result = { "outcome", "data" }
           /\ DOMAIN result.data = { "evt", "state" }
           /\ result.data.evt = decideRes.data
           /\ result.data.state # None
        \/ /\ isFailure(result)
           /\ DOMAIN result = { "outcome", "cause" }

C25_Witness ==
    /\ pc = "done"
    /\ entry = "execute"
    /\ isSuccess(result)
    /\ Len(result.data.evt) = MaxEvts
    /\ Len(_constrains) >= 1

\* C26 (as claimed): the safe evolve, evolve(e)(s), validates s first: when
\* s is rejected it returns the validator's failure and the evolution
\* function is not applied; when s is accepted it returns a Success Result
\* whose data is the output of the evolution function.
C26_SafeEvolve ==
    libOp = "evolve" =>
        LET pRes == ParseState(libIn.parseState, libIn.s) IN
        /\ isFailure(pRes) => /\ libOut = pRes
                              /\ LibIdx("evolve") = {}
        /\ isSuccess(pRes) => /\ Cardinality(LibIdx("evolve")) = 1
                              /\ libOut = succeed(Evolve(libIn.e, pRes.data))

\* C27: the success payload of a constraint is discarded: every constraint
\* is applied to the state the validator returned, never to the state an
\* earlier constraint returned, and when all constraints pass the decision
\* receives the validator-returned state.
C27_ConstraintPayloadDiscarded ==
    /\ \A k \in CallIdx("constrain") : calls[k].arg = parsingRes.data
    /\ \A k \in CallIdx("decide") : calls[k].arg = parsingRes.data

C27_Witness ==
    /\ CallIdx("decide") # {}
    /\ parsingRes.data # s
    /\ \E j \in CallIdx("constrain"), k \in CallIdx("constrain") :
          /\ j < k
          /\ isSuccess(calls[j].res)
          /\ calls[j].res.data # parsingRes.data

\* C28: the two entry points agree: for every (cmd, state), wf.execute
\* returns a failure exactly when wf.decide does, with the same cause list,
\* and when wf.decide succeeds with events E, wf.execute succeeds with the
\* same events in the same order.
C28_EntriesAgree ==
    \A i \in Callers, j \in Callers :
        ( /\ Done(i) /\ Done(j)
          /\ frame[i].entry = "execute"
          /\ frame[j].entry = "decide"
          /\ frame[i].c = frame[j].c
          /\ frame[i].s = frame[j].s )
        => /\ isFailure(frame[i].result) <=> isFailure(frame[j].result)
           /\ isFailure(frame[j].result) =>
                 frame[i].result.cause = frame[j].result.cause
           /\ isSuccess(frame[j].result) =>
                 /\ isSuccess(frame[i].result)
                 /\ frame[i].result.data.evt = frame[j].result.data

C28_Witness ==
    /\ Done("a") /\ Done("b")
    /\ frame["a"].entry = "execute"
    /\ frame["b"].entry = "decide"
    /\ frame["a"].c = frame["b"].c
    /\ frame["a"].s = frame["b"].s
    /\ isSuccess(frame["b"].result)
    /\ Len(frame["b"].result.data) = 2
    /\ frame["a"].result.data.evt = << Evt("inc"), Evt("dbl") >>

\* C30: splitRes(result) returns the failure itself, unchanged, when result
\* is a failure, and the raw success payload, not wrapped in a Result, when
\* result is a success; at the end of a pipeline it never turns a failure
\* into a payload or a payload into a failure.
C30_SplitRes ==
    libOp = "splitRes" =>
        /\ isFailure(libIn.piped) => libOut = libIn.piped
        /\ isSuccess(libIn.piped) => /\ libOut = libIn.piped.data
                                     /\ libOut \in States

C30_Witness ==
    /\ libOp = "splitRes"
    /\ Len(libIn.fns) = 2
    /\ isSuccess(libIn.res)
    /\ isSuccess(libIn.piped)
    /\ libOut # libIn.res.data

====
